---- MODULE Spec2Model ----
(***************************************************************************)
(* A model of media_importer.py: MediaImporter.import_media and the        *)
(* per-file placement of MediaImporter.organize_media, run over a small    *)
(* source tree and a small destination tree.                               *)
(*                                                                         *)
(* File names are sequences of tokens: one token per character of the      *)
(* stem, and the extension (".JPG") as one last token, so that the name    *)
(* the collision loop formats (stem + "_" + str(counter) + suffix) can be  *)
(* compared with names that are already there.  File contents are          *)
(* sequences of bytes; the size of a file is the length of its content.    *)
(* A date is <<year, month, day>>; None and the empty string are <<>>.     *)
(*                                                                         *)
(* Spec is one run of the tool in which the I/O calls of organize_media    *)
(* may fail; SpecTwice is the tool run twice over the same source and      *)
(* destination with no I/O call failing; SpecDryReal is a dry run followed *)
(* by a real run; SpecClassify is one run over a single file whose         *)
(* extension is any of the spellings.                                      *)
(***************************************************************************)
EXTENDS Integers, Sequences, FiniteSets, TLC

VARIABLES
    source_exists,   \* self.source.exists()
    video_source,    \* "None" (not given), "missing" (given, not there), "present"
    dry_run,         \* self.dry_run
    srcFiles,        \* the regular files under the two source roots
    dest,            \* the files under self.destination: path -> [content]
    destDirs,        \* the directories under self.destination
    files,           \* import_media's local list of (file, file_type)
    idx,             \* position of the for loop of import_media in files
    stats,           \* self.stats
    pc,              \* "start", "process" (the for loop), "done" (import_media
                     \* returned), "aborted" (an OSError left import_media)
    result,          \* what import_media returned: "none", "True", "False"
    summaries,       \* how many times print_summary has run in this run
    run,             \* 1: first invocation of the tool, 2: the second
    firstRun,        \* what the first invocation left: its list, stats and log
    faulted,         \* the organize_media calls so far in which an I/O call failed
    atStart,         \* dest, destDirs and srcFiles when the current run started
    last,            \* what the last organize_media call saw and decided
    log              \* the decision and destination path of each file of this run

vars == <<source_exists, video_source, dry_run, srcFiles, dest, destDirs, files,
          idx, stats, pc, result, summaries, run, firstRun, faulted, atStart, last, log>>

(***************************************************************************)
(* Bounds of the model.                                                    *)
(***************************************************************************)
MaxFiles == 2        \* files in the source tree
MaxFaults == 2       \* I/O calls that fail while one file is processed
MaxFaultyCalls == 1  \* organize_media calls in which an I/O call fails

None == <<>>

(***************************************************************************)
(* Strings: the order of the tokens is the order of their code points      *)
(* ('.' < digits < upper case < '_'); str(int) is decimal.                 *)
(***************************************************************************)
TokenOrder ==
    <<".ARW", ".BUP", ".DNG", ".IFO", ".JPEG", ".JPG", ".Jpg", ".M2TS", ".MOV",
      ".MP4", ".MTS", ".Mp4", ".TIF", ".TIFF", ".XML", ".Xml", ".arw", ".bup",
      ".dng", ".ifo", ".jpeg", ".jpg", ".m2ts", ".mov", ".mp4", ".mts", ".tif",
      ".tiff", ".xml",
      "0", "1", "2", "3", "4", "5", "6", "7", "8", "9",
      "A", "B", "CLIP", "DCIM", "_">>

Ord(tok) == CHOOSE i \in 1..Len(TokenOrder) : TokenOrder[i] = tok

RECURSIVE StrLess(_, _)
StrLess(a, b) ==
    IF a = <<>> THEN b # <<>>
    ELSE IF b = <<>> THEN FALSE
    ELSE IF Head(a) = Head(b) THEN StrLess(Tail(a), Tail(b))
    ELSE Ord(Head(a)) < Ord(Head(b))

Digits == <<"0", "1", "2", "3", "4", "5", "6", "7", "8", "9">>
Digit(k) == Digits[k + 1]

RECURSIVE IntToStr(_)
IntToStr(n) ==
    IF n < 10 THEN <<Digit(n)>> ELSE IntToStr(n \div 10) \o <<Digit(n % 10)>>

\* strftime("%Y"), strftime("%m"), strftime("%d")
strftime_Y(d) == <<Digit(d[1] \div 1000), Digit((d[1] \div 100) % 10),
                   Digit((d[1] \div 10) % 10), Digit(d[1] % 10)>>
\* strftime_m without the zero padding
strftime_m_unpadded(d) == IntToStr(d[2])
strftime_m(d) == <<Digit(d[2] \div 10), Digit(d[2] % 10)>>
strftime_d(d) == <<Digit(d[3] \div 10), Digit(d[3] % 10)>>

(***************************************************************************)
(* pathlib: suffix and stem of a name, and the order of two paths (the     *)
(* parts compared in turn, each as a string).                              *)
(***************************************************************************)
DotTokens == {TokenOrder[i] : i \in 1..(Ord("0") - 1)}

PathSuffix(name) ==
    IF Len(name) > 1 /\ name[Len(name)] \in DotTokens THEN <<name[Len(name)]>> ELSE <<>>

PathStem(name) == SubSeq(name, 1, Len(name) - Len(PathSuffix(name)))

PathParts(f) == << <<f.root>>, f.dir, f.name >>

RECURSIVE PartsLess(_, _)
PartsLess(p, q) ==
    IF p = <<>> THEN q # <<>>
    ELSE IF q = <<>> THEN FALSE
    ELSE IF Head(p) = Head(q) THEN PartsLess(Tail(p), Tail(q))
    ELSE StrLess(Head(p), Head(q))

(***************************************************************************)
(* Classification by extension.                                            *)
(***************************************************************************)
photo_extensions ==
    {<<".arw">>, <<".ARW">>, <<".jpg">>, <<".jpeg">>, <<".JPG">>, <<".JPEG">>,
     <<".dng">>, <<".DNG">>, <<".tif">>, <<".tiff">>, <<".TIF">>, <<".TIFF">>}
video_extensions ==
    {<<".mp4">>, <<".MP4">>, <<".mov">>, <<".MOV">>, <<".mts">>, <<".MTS">>,
     <<".m2ts">>, <<".M2TS">>}
skip_extensions == {<<".xml">>, <<".XML">>, <<".bup">>, <<".BUP">>, <<".ifo">>, <<".IFO">>}

is_photo_file(name) == PathSuffix(name) \in photo_extensions
is_video_file(name) == PathSuffix(name) \in video_extensions

(***************************************************************************)
(* The files the source tree is drawn from.  exif holds the three tags     *)
(* get_media_date looks at, in its order: a tag is absent, present with a  *)
(* string that does not parse (value None), or present with a date.        *)
(***************************************************************************)
Day1 == <<2025, 11, 28>>
Day2 == <<2025, 3, 7>>

Absent == [present |-> FALSE, value |-> None]
Garbled == [present |-> TRUE, value |-> None]
Tag(d) == [present |-> TRUE, value |-> d]

SourceUniverse ==
    { [root |-> "DCIM", dir |-> <<"1", "0", "0">>, name |-> <<"A", ".JPG">>,
       content |-> <<0>>, mtime |-> Day2, exif |-> <<Tag(Day1), Tag(Day2), Absent>>],
      [root |-> "DCIM", dir |-> <<"1", "0", "1">>, name |-> <<"A", ".JPG">>,
       content |-> <<1>>, mtime |-> Day2, exif |-> <<Garbled, Tag(Day1), Absent>>],
      [root |-> "DCIM", dir |-> <<"1", "0", "2">>, name |-> <<"A", ".JPG">>,
       content |-> <<0, 1>>, mtime |-> Day1, exif |-> <<Absent, Absent, Absent>>],
      [root |-> "DCIM", dir |-> <<"1", "0", "0">>, name |-> <<"A", "_", "1", ".JPG">>,
       content |-> <<1, 1>>, mtime |-> Day1, exif |-> <<Absent, Absent, Garbled>>],
      [root |-> "CLIP", dir |-> <<"B">>, name |-> <<"B", ".MP4">>,
       content |-> <<1, 0>>, mtime |-> Day2, exif |-> <<Absent, Absent, Absent>>],
      [root |-> "CLIP", dir |-> <<"B">>, name |-> <<"B", ".XML">>,
       content |-> <<0>>, mtime |-> Day2, exif |-> <<Absent, Absent, Absent>>] }

\* dest_dir and dest_file of organize_media
subfolder(file_type) == IF file_type = "video" THEN "videos" ELSE "pictures"
DestDir(media_date, file_type) ==
    <<strftime_Y(media_date), strftime_m(media_date), strftime_d(media_date),
      subfolder(file_type)>>
DestFile(dest_dir, name) == <<dest_dir, name>>

\* the files the destination may hold before the first run
DestUniverse ==
    { [path |-> DestFile(DestDir(Day1, "photo"), <<"A", ".JPG">>), content |-> <<0>>],
      [path |-> DestFile(DestDir(Day1, "photo"), <<"A", ".JPG">>), content |-> <<1, 1, 1>>],
      [path |-> DestFile(DestDir(Day1, "photo"), <<"A", "_", "1", ".JPG">>), content |-> <<1>>] }

\* mkdir(parents=True): the directory and every directory above it
Parents(dest_dir) == {SubSeq(dest_dir, 1, n) : n \in 1..Len(dest_dir)}

exists(fs, path) == path \in DOMAIN fs
st_size(content) == Len(content)

ZeroStats == [copied |-> 0, skipped |-> 0, errors |-> 0, total_size |-> 0]

NoCall ==
    [n |-> 0, decision |-> "none", name |-> None, content |-> None, file_type |-> "none",
     media_date |-> None, dest_file |-> None, hit |-> {}, prev |-> ZeroStats,
     before |-> <<>>, exif |-> <<>>, mtime |-> None]

Init ==
    /\ source_exists \in BOOLEAN
    /\ video_source \in {"None", "missing", "present"}
    /\ dry_run \in BOOLEAN
    /\ srcFiles \in {S \in SUBSET SourceUniverse :
                        /\ Cardinality(S) <= MaxFiles
                        /\ ~source_exists => \A f \in S : f.root # "DCIM"
                        /\ video_source # "present" => \A f \in S : f.root # "CLIP"}
    /\ \E D \in SUBSET DestUniverse :
          /\ \A a, b \in D : a.path = b.path => a = b
          /\ dest = [p \in {d.path : d \in D} |->
                        [content |-> (CHOOSE d \in D : d.path = p).content]]
          /\ destDirs = UNION {Parents(d.path[1]) : d \in D}
    /\ files = <<>>
    /\ idx = 1
    /\ stats = ZeroStats
    /\ pc = "start"
    /\ result = "none"
    /\ summaries = 0
    /\ run = 1
    /\ firstRun = [n |-> 0, stats |-> ZeroStats, files |-> <<>>, log |-> <<>>]
    /\ faulted = 0
    /\ atStart = [dest |-> dest, destDirs |-> destDirs, src |-> srcFiles]
    /\ last = NoCall
    /\ log = <<>>

(***************************************************************************)
(* The I/O calls that can fail with OSError, each named by its place in    *)
(* organize_media: a call that fails is a member of the set flt the        *)
(* environment picks for the file.                                         *)
(***************************************************************************)
Faults ==
    {"exif_open",     \* open(file_path, "rb") of get_media_date
     "mtime_stat",    \* file_path.stat() of get_media_date
     "size_stat",     \* dest_file.stat() or media_path.stat() of the size comparison
     "hash_src",      \* open of get_file_hash(media_path)
     "hash_dst",      \* open of get_file_hash(dest_file)
     "mkdir",         \* dest_dir.mkdir
     "copy",          \* shutil.copy2, nothing written
     "copy_partial",  \* shutil.copy2, a truncated file left behind
     "copied_stat"}   \* media_path.stat() after the copy

FaultSets == {F \in SUBSET Faults : Cardinality(F) <= MaxFaults}

\* FirstParseable without the continue: the first tag present decides
RECURSIVE FirstPresent(_, _)
FirstPresent(tags, i) ==
    IF i > Len(tags) THEN None
    ELSE IF tags[i].present THEN tags[i].value
    ELSE FirstPresent(tags, i + 1)

\* the for loop over the three tag names: tags is what exifread.process_file gave
RECURSIVE FirstParseable(_, _)
FirstParseable(tags, i) ==
    IF i > Len(tags) THEN None
    ELSE IF tags[i].present /\ tags[i].value # None THEN tags[i].value
    ELSE FirstParseable(tags, i + 1)

\* the with-block of get_media_date: None when it returns nothing
ExifDate(f, flt) == IF "exif_open" \in flt THEN None ELSE FirstParseable(f.exif, 1)

\* MtimeDate with a date also when stat() fails
MtimeDateAlways(f, flt) == f.mtime

\* the fallback of get_media_date (and the whole of it for a video)
MtimeDate(f, flt) == IF "mtime_stat" \in flt THEN None ELSE f.mtime

get_media_date(f, flt) ==
    IF is_video_file(f.name) THEN MtimeDate(f, flt)
    ELSE IF ExifDate(f, flt) # None THEN ExifDate(f, flt)
    ELSE MtimeDate(f, flt)

\* the calls of get_media_date that were made and failed
DateHits(f, flt) ==
    IF is_video_file(f.name) THEN flt \cap {"mtime_stat"}
    ELSE (flt \cap {"exif_open"})
         \cup (IF ExifDate(f, flt) = None THEN flt \cap {"mtime_stat"} ELSE {})

\* hexdigest of the content (different contents, different digests), "" on OSError
get_file_hash(content, fails) == IF fails THEN <<>> ELSE <<"md5">> \o content

\* SuffixLoop with numbers that depend on the invocation: the n-th run of the tool
\* starts counting at n
RECURSIVE SuffixLoopPerRun(_, _, _, _, _, _)
SuffixLoopPerRun(fs, dest_dir, stem, suffix, counter, dest_file) ==
    IF exists(fs, dest_file)
    THEN SuffixLoopPerRun(fs, dest_dir, stem, suffix, counter + 1,
                          DestFile(dest_dir,
                                   stem \o <<"_">> \o IntToStr(counter + run - 1) \o suffix))
    ELSE dest_file

\* SuffixLoop as an if: the first suffixed name is taken without looking
SuffixLoopOnce(fs, dest_dir, stem, suffix, counter, dest_file) ==
    DestFile(dest_dir, stem \o <<"_">> \o IntToStr(counter) \o suffix)

\* the while loop of the collision branch
RECURSIVE SuffixLoop(_, _, _, _, _, _)
SuffixLoop(fs, dest_dir, stem, suffix, counter, dest_file) ==
    IF exists(fs, dest_file)
    THEN SuffixLoop(fs, dest_dir, stem, suffix, counter + 1,
                    DestFile(dest_dir, stem \o <<"_">> \o IntToStr(counter) \o suffix))
    ELSE dest_file

Bump(st, field) == [st EXCEPT ![field] = @ + 1]

Written(fs, dest_file, content) == (dest_file :> [content |-> content]) @@ fs

\* what is left of a copy that failed part way
Truncated(content) == SubSeq(content, 1, Len(content) - 1)

\* Failed without its return: the error is counted, and then the copy as well
FailedAlsoCopied(dest_file, hit, fs, dirs) ==
    [decision |-> "SkipError", dest_file |-> dest_file, hit |-> hit,
     stats |-> Bump(Bump(stats, "errors"), "copied"), dest |-> fs, destDirs |-> dirs]

\* the except branch: the error is counted and organize_media returns False
Failed(dest_file, hit, fs, dirs) ==
    [decision |-> "SkipError", dest_file |-> dest_file, hit |-> hit,
     stats |-> Bump(stats, "errors"), dest |-> fs, destDirs |-> dirs]

\* the try block: mkdir, copy2, stat, then the copy is counted
TryCopy(f, dest_dir, dest_file, flt) ==
    IF "mkdir" \in flt
    THEN Failed(dest_file, {"mkdir"}, dest, destDirs)
    ELSE IF "copy" \in flt
    THEN Failed(dest_file, {"copy"}, dest, destDirs \cup Parents(dest_dir))
    ELSE IF "copy_partial" \in flt
    THEN Failed(dest_file, {"copy_partial"},
                Written(dest, dest_file, Truncated(f.content)),
                destDirs \cup Parents(dest_dir))
    ELSE IF "copied_stat" \in flt
    THEN Failed(dest_file, {"copied_stat"}, Written(dest, dest_file, f.content),
                destDirs \cup Parents(dest_dir))
    ELSE [decision |-> "Copy", dest_file |-> dest_file, hit |-> {},
          stats |-> [stats EXCEPT !.total_size = @ + st_size(f.content),
                                  !.copied = @ + 1],
          dest |-> Written(dest, dest_file, f.content),
          destDirs |-> destDirs \cup Parents(dest_dir)]

\* CopyStep without the dry-run test
CopyStepIgnoringDryRun(f, dest_dir, dest_file, flt) == TryCopy(f, dest_dir, dest_file, flt)

\* the dry-run test that ends organize_media
CopyStep(f, dest_dir, dest_file, flt) ==
    IF dry_run
    THEN [decision |-> "Copy", dest_file |-> dest_file, hit |-> {},
          stats |-> Bump(stats, "copied"), dest |-> dest, destDirs |-> destDirs]
    ELSE TryCopy(f, dest_dir, dest_file, flt)

\* Skip without the count
SkipUncounted(decision, dest_file, hit) ==
    [decision |-> decision, dest_file |-> dest_file, hit |-> hit,
     stats |-> stats, dest |-> dest, destDirs |-> destDirs]

\* a return of organize_media that copies nothing
Skip(decision, dest_file, hit) ==
    [decision |-> decision, dest_file |-> dest_file, hit |-> hit,
     stats |-> Bump(stats, "skipped"), dest |-> dest, destDirs |-> destDirs]

\* an OSError that leaves organize_media
Raise(dest_file, hit) ==
    [decision |-> "raised", dest_file |-> dest_file, hit |-> hit, stats |-> stats,
     dest |-> dest, destDirs |-> destDirs]

\* the branch taken when dest_file exists
ExistingFile(f, dest_dir, dest_file, flt) ==
    IF "size_stat" \in flt THEN Raise(dest_file, {"size_stat"})
    ELSE IF st_size(dest[dest_file].content) = st_size(f.content)
    THEN Skip("SkipDuplicate", dest_file, {})
    ELSE LET source_hash == get_file_hash(f.content, "hash_src" \in flt)
             dest_hash == get_file_hash(dest[dest_file].content, "hash_dst" \in flt)
             hhit == flt \cap {"hash_src", "hash_dst"}
         IN  IF source_hash = dest_hash THEN Skip("SkipDuplicate", dest_file, hhit)
             ELSE LET o == CopyStep(f, dest_dir,
                                    SuffixLoop(dest, dest_dir, PathStem(f.name),
                                               PathSuffix(f.name), 1, dest_file),
                                    flt)
                  IN  [o EXCEPT !.hit = @ \cup hhit]

organize_media(f, file_type, flt) ==
    LET media_date == get_media_date(f, flt)
    IN  IF media_date = None THEN Skip("SkipUnresolvedDate", None, DateHits(f, flt))
        ELSE LET dest_dir == DestDir(media_date, file_type)
                 dest_file == DestFile(dest_dir, f.name)
                 o == IF exists(dest, dest_file)
                      THEN ExistingFile(f, dest_dir, dest_file, flt)
                      ELSE CopyStep(f, dest_dir, dest_file, flt)
             IN  [o EXCEPT !.hit = @ \cup DateHits(f, flt)]

(***************************************************************************)
(* find_all_media: the photos under the photo root, the videos under the   *)
(* video root when it is given and exists, sorted by path.                 *)
(***************************************************************************)
\* sorted left out: the photos as they were found, then the videos
RECURSIVE discovery_order(_)
discovery_order(S) ==
    IF S = {} THEN <<>>
    ELSE LET m == CHOOSE x \in S :
                    \A y \in S \ {x} :
                        \/ x[2] = "photo" /\ y[2] = "video"
                        \/ x[2] = y[2] /\ PartsLess(PathParts(x[1]), PathParts(y[1]))
         IN  <<m>> \o discovery_order(S \ {m})

\* sorted(files, key=lambda x: x[0])
RECURSIVE sorted(_)
sorted(S) ==
    IF S = {} THEN <<>>
    ELSE LET m == CHOOSE x \in S :
                    \A y \in S \ {x} : PartsLess(PathParts(x[1]), PathParts(y[1]))
         IN  <<m>> \o sorted(S \ {m})

find_all_media ==
    LET photos == {<<f, "photo">> : f \in
                     {g \in srcFiles : /\ g.root = "DCIM"
                                       /\ PathSuffix(g.name) \notin skip_extensions
                                       /\ is_photo_file(g.name)}}
        videos == IF video_source = "present"
                  THEN {<<f, "video">> : f \in
                          {g \in srcFiles : /\ g.root = "CLIP"
                                            /\ PathSuffix(g.name) \notin skip_extensions
                                            /\ is_video_file(g.name)}}
                  ELSE {}
    IN  sorted(photos \cup videos)

(***************************************************************************)
(* import_media.                                                           *)
(***************************************************************************)
\* ImportMedia without the test of self.source.exists()
ImportMediaNoSourceCheck ==
    /\ pc = "start"
    /\ files' = find_all_media
    /\ IF files' = <<>>
       THEN result' = "False" /\ pc' = "done"
       ELSE result' = result /\ pc' = "process"
    /\ UNCHANGED <<source_exists, video_source, dry_run, srcFiles, dest, destDirs, idx,
                   stats, summaries, run, firstRun, faulted, atStart, last, log>>

\* ImportMedia without the test of the empty list
ImportMediaNoEmptyCheck ==
    /\ pc = "start"
    /\ IF ~source_exists
       THEN /\ result' = "False"
            /\ pc' = "done"
            /\ files' = files
       ELSE /\ files' = find_all_media
            /\ result' = result
            /\ pc' = "process"
    /\ UNCHANGED <<source_exists, video_source, dry_run, srcFiles, dest, destDirs, idx,
                   stats, summaries, run, firstRun, faulted, atStart, last, log>>

\* up to the for loop: the source check, the scan, the empty list
ImportMedia ==
    /\ pc = "start"
    /\ IF ~source_exists
       THEN /\ result' = "False"
            /\ pc' = "done"
            /\ files' = files
       ELSE /\ files' = find_all_media
            /\ IF files' = <<>>
               THEN result' = "False" /\ pc' = "done"
               ELSE result' = result /\ pc' = "process"
    /\ UNCHANGED <<source_exists, video_source, dry_run, srcFiles, dest, destDirs, idx,
                   stats, summaries, run, firstRun, faulted, atStart, last, log>>

\* SourceAfter for a tool that moves the file instead of copying it
SourceAfterMove(f, decision) ==
    IF decision = "Copy" /\ ~dry_run THEN srcFiles \ {f} ELSE srcFiles

\* the source tree after organize_media(f): copy2 reads media_path, and nothing in
\* organize_media writes, renames or removes it (the destination is taken to lie
\* outside the two source roots)
SourceAfter(f, decision) == srcFiles

\* one turn of the for loop: organize_media(file_path, file_type), with the I/O
\* calls that fail drawn from fault_sets
Organize(fault_sets) ==
    /\ pc = "process"
    /\ idx <= Len(files)
    /\ \E flt \in fault_sets :
         \E o \in {organize_media(files[idx][1], files[idx][2], flt)} :
             /\ o.hit = flt   \* flt names the calls that failed, and no others
             /\ last' = [n |-> idx, decision |-> o.decision, name |-> files[idx][1].name,
                         content |-> files[idx][1].content,
                         file_type |-> files[idx][2],
                         media_date |-> get_media_date(files[idx][1], flt),
                         dest_file |-> o.dest_file, hit |-> o.hit, prev |-> stats,
                         before |-> dest, exif |-> files[idx][1].exif,
                         mtime |-> files[idx][1].mtime]
             /\ log' = Append(log, <<o.decision, o.dest_file>>)
             /\ srcFiles' = SourceAfter(files[idx][1], o.decision)
             /\ stats' = o.stats
             /\ dest' = o.dest
             /\ destDirs' = o.destDirs
             /\ faulted' = IF o.hit # {} THEN faulted + 1 ELSE faulted
             /\ faulted' <= MaxFaultyCalls
             /\ IF o.decision = "raised"
                THEN pc' = "aborted" /\ idx' = idx
                ELSE pc' = pc /\ idx' = idx + 1
    /\ UNCHANGED <<source_exists, video_source, dry_run, files, result, summaries, run,
                   firstRun, atStart>>

\* a turn of the loop in which any of the I/O calls may fail
OrganizeMedia == Organize(FaultSets)

\* a turn of the loop in which no I/O call fails
OrganizeMediaNoFault == Organize({{}})

\* PrintSummary without the call of print_summary
ReturnWithoutSummary ==
    /\ pc = "process"
    /\ idx > Len(files)
    /\ result' = "True"
    /\ pc' = "done"
    /\ UNCHANGED <<source_exists, video_source, dry_run, srcFiles, dest, destDirs, files,
                   idx, stats, summaries, run, firstRun, faulted, atStart, last, log>>

\* after the loop: print_summary and return True
PrintSummary ==
    /\ pc = "process"
    /\ idx > Len(files)
    /\ summaries' = summaries + 1
    /\ result' = "True"
    /\ pc' = "done"
    /\ UNCHANGED <<source_exists, video_source, dry_run, srcFiles, dest, destDirs, files,
                   idx, stats, run, firstRun, faulted, atStart, last, log>>

\* main() once more, with the same arguments, on what the first run left
Rerun ==
    /\ pc = "done"
    /\ run = 1
    /\ run' = 2
    /\ firstRun' = [n |-> Len(files), stats |-> stats, files |-> files, log |-> log]
    /\ stats' = ZeroStats
    /\ files' = <<>>
    /\ idx' = 1
    /\ pc' = "start"
    /\ result' = "none"
    /\ summaries' = 0
    /\ atStart' = [dest |-> dest, destDirs |-> destDirs, src |-> srcFiles]
    /\ last' = NoCall
    /\ log' = <<>>
    /\ UNCHANGED <<source_exists, video_source, dry_run, srcFiles, dest, destDirs,
                   faulted>>

\* one run of the tool, in which I/O calls may fail
Next == ImportMedia \/ OrganizeMedia \/ PrintSummary

Spec == Init /\ [][Next]_vars

\* the tool run twice over the same source and destination, no I/O call failing
NextTwice == ImportMedia \/ OrganizeMediaNoFault \/ PrintSummary \/ Rerun

SpecTwice == Init /\ [][NextTwice]_vars

(***************************************************************************)
(* A dry run, and then the tool run for real over the same source and the  *)
(* destination the dry run left, no I/O call failing.                      *)
(***************************************************************************)
InitDry == Init /\ dry_run

\* main() once more, this time without --dry-run
RerunForReal ==
    /\ pc = "done"
    /\ run = 1
    /\ dry_run
    /\ dry_run' = FALSE
    /\ run' = 2
    /\ firstRun' = [n |-> Len(files), stats |-> stats, files |-> files, log |-> log]
    /\ stats' = ZeroStats
    /\ files' = <<>>
    /\ idx' = 1
    /\ pc' = "start"
    /\ result' = "none"
    /\ summaries' = 0
    /\ atStart' = [dest |-> dest, destDirs |-> destDirs, src |-> srcFiles]
    /\ last' = NoCall
    /\ log' = <<>>
    /\ UNCHANGED <<source_exists, video_source, srcFiles, dest, destDirs, faulted>>

NextDryReal == ImportMedia \/ OrganizeMediaNoFault \/ PrintSummary \/ RerunForReal

SpecDryReal == InitDry /\ [][NextDryReal]_vars

(***************************************************************************)
(* One run over a source tree that holds a single file, its extension any  *)
(* of the spellings, under either root.                                    *)
(***************************************************************************)
ClassifyUniverse ==
    { [root |-> r, dir |-> <<"1", "0", "0">>, name |-> <<"A", e>>,
       content |-> <<0>>, mtime |-> Day1, exif |-> <<Absent, Absent, Absent>>] :
      r \in {"DCIM", "CLIP"}, e \in DotTokens }

InitClassify ==
    /\ source_exists = TRUE
    /\ video_source \in {"None", "missing", "present"}
    /\ dry_run \in BOOLEAN
    /\ srcFiles \in {{f} : f \in {g \in ClassifyUniverse :
                                     video_source # "present" => g.root # "CLIP"}}
    /\ dest = <<>>
    /\ destDirs = {}
    /\ files = <<>>
    /\ idx = 1
    /\ stats = ZeroStats
    /\ pc = "start"
    /\ result = "none"
    /\ summaries = 0
    /\ run = 1
    /\ firstRun = [n |-> 0, stats |-> ZeroStats, files |-> <<>>, log |-> <<>>]
    /\ faulted = 0
    /\ atStart = [dest |-> dest, destDirs |-> destDirs, src |-> srcFiles]
    /\ last = NoCall
    /\ log = <<>>

NextClassify == ImportMedia \/ OrganizeMediaNoFault \/ PrintSummary

SpecClassify == InitClassify /\ [][NextClassify]_vars

TypeOK ==
    /\ pc \in {"start", "process", "done", "aborted"}
    /\ result \in {"none", "True", "False"}
    /\ run \in {1, 2}
    /\ idx \in 1..(Len(files) + 1)
    /\ Len(log) \in {idx - 1, idx}
    /\ srcFiles \subseteq SourceUniverse \cup ClassifyUniverse

(***************************************************************************)
(* What the last organize_media call was about, read off the destination   *)
(* as it was before the call.                                              *)
(***************************************************************************)
\* the call returned (it did not leave with an OSError)
Returned == last.decision \notin {"none", "raised"}

\* the target path of the last file: dest_dir / media_path.name
Target == DestFile(DestDir(last.media_date, last.file_type), last.name)

\* a file was at the target path when the decision was made
TargetTaken == /\ last.decision # "none"
               /\ last.media_date # None
               /\ exists(last.before, Target)

SameSize == st_size(last.before[Target].content) = st_size(last.content)
SameContent == last.before[Target].content = last.content

\* stem_k.ext in the target directory
Suffixed(k) ==
    DestFile(Target[1],
             PathStem(last.name) \o <<"_">> \o IntToStr(k) \o PathSuffix(last.name))

\* the call decided to copy under a suffixed name (the copy itself may have failed)
CopiedUnderSuffix == /\ last.decision \in {"Copy", "SkipError"}
                     /\ last.dest_file # Target
                     /\ \E k \in 1..(Cardinality(DOMAIN last.before) + 1) :
                           last.dest_file = Suffixed(k)

\* C1 (as claimed): a second non-dry run over the same source and the destination
\* the first run left, with no I/O failure in either run, copies nothing and skips
\* as many files as the first run processed.
C1_SecondRunOnlySkips ==
    (run = 2 /\ pc = "done" /\ result = "True" /\ ~dry_run /\ faulted = 0)
        => (stats.copied = 0 /\ stats.skipped = firstRun.n)

\* C2 (as claimed): when the target exists with the candidate's size, equal content
\* gives SkipDuplicate and different content gives a copy under a suffixed name.
C2_SameSizeDecidedByContent ==
    (Returned /\ TargetTaken /\ SameSize)
        => /\ SameContent => last.decision = "SkipDuplicate"
           /\ ~SameContent => CopiedUnderSuffix

\* C3 (as claimed): when the target exists with another size, the decision is a copy
\* under a suffixed name, whatever the digests come to.
C3_OtherSizeAlwaysCopies ==
    (Returned /\ TargetTaken /\ ~SameSize) => CopiedUnderSuffix

\* C4 (as claimed): when hashing either file fails during the comparison, the
\* candidate is not skipped as a duplicate: it is copied under a suffixed name.
C4_HashFailureNeverSkips ==
    (Returned /\ last.hit \cap {"hash_src", "hash_dst"} # {})
        => (last.decision # "SkipDuplicate" /\ CopiedUnderSuffix)

\* C5 (as claimed): no I/O failure while one candidate is processed ends the run.
C5_NoFileAbortsTheRun == pc # "aborted"

\* C6 (as claimed): when the target is taken by a file of different content (and no
\* I/O call fails), the candidate is copied to stem_k.ext with k the smallest
\* number >= 1 whose path did not exist when the decision was made.
C6_LandsAtSmallestFreeSuffix ==
    (Returned /\ TargetTaken /\ ~SameContent /\ last.hit = {})
        => /\ last.decision = "Copy"
           /\ \E k \in 1..(Cardinality(DOMAIN last.before) + 1) :
                 /\ last.dest_file = Suffixed(k)
                 /\ ~exists(last.before, Suffixed(k))
                 /\ \A j \in 1..(k - 1) : exists(last.before, Suffixed(j))

\* C7: in a dry run the files and directories of the destination stay as they were
\* when the run started, and total_size stays 0.
C7_DryRunMutatesNothing ==
    dry_run => /\ dest = atStart.dest
               /\ destDirs = atStart.destDirs
               /\ stats.total_size = 0

\* a dry run that met a taken target and planned a copy under a suffixed name
C7_Witness ==
    /\ dry_run
    /\ pc = "done"
    /\ last.decision = "Copy"
    /\ TargetTaken
    /\ last.dest_file # Target

\* C8: each organize_media call that returns adds exactly 1 to exactly one of
\* copied, skipped, errors, the one its decision names, so the three add up to the
\* number of candidates processed so far.
C8_OneOutcomePerCandidate ==
    /\ stats.copied + stats.skipped + stats.errors = idx - 1
    /\ Returned =>
          /\ stats.copied = last.prev.copied + (IF last.decision = "Copy" THEN 1 ELSE 0)
          /\ stats.skipped = last.prev.skipped
                + (IF last.decision \in {"SkipDuplicate", "SkipUnresolvedDate"}
                   THEN 1 ELSE 0)
          /\ stats.errors = last.prev.errors
                + (IF last.decision = "SkipError" THEN 1 ELSE 0)

\* a run that ended with one file copied and one counted as an error
C8_Witness ==
    /\ pc = "done"
    /\ result = "True"
    /\ stats.copied = 1
    /\ stats.errors = 1

\* C9: when mkdir or the copy fails in a run that is not a dry run, errors grows by
\* 1, copied and total_size stay, and the loop goes on to the next candidate.
C9_CopyFailureCountsAsError ==
    (last.hit \cap {"mkdir", "copy", "copy_partial"} # {})
        => /\ ~dry_run
           /\ last.decision = "SkipError"
           /\ stats.errors = last.prev.errors + 1
           /\ stats.copied = last.prev.copied
           /\ stats.total_size = last.prev.total_size
           /\ pc \in {"process", "done"}
           /\ idx = last.n + 1

\* the copy of a file failed and the next candidate is about to be processed
C9_Witness ==
    /\ last.hit \cap {"mkdir", "copy", "copy_partial"} # {}
    /\ pc = "process"
    /\ idx <= Len(files)

MediaUnderRoots ==
    {f \in srcFiles :
        \/ f.root = "DCIM" /\ source_exists /\ is_photo_file(f.name)
        \/ f.root = "CLIP" /\ video_source = "present" /\ is_video_file(f.name)}

\* nothing of the run has touched the files, the counters or the destination
NothingProcessed ==
    /\ files = <<>>
    /\ idx = 1
    /\ last = NoCall
    /\ log = <<>>
    /\ stats = ZeroStats
    /\ summaries = 0
    /\ dest = atStart.dest
    /\ destDirs = atStart.destDirs

\* C11: when the photo source does not exist the run returns False at once, with no
\* candidate listed or processed (a video root that is there changes nothing), the
\* statistics at zero and the destination as it was; and no other test of
\* import_media stops a run that has media to process.
C11_MissingSourceFailsAtOnce ==
    /\ (~source_exists /\ pc # "start") =>
          (pc = "done" /\ result = "False" /\ NothingProcessed)
    /\ (source_exists /\ pc # "start" /\ MediaUnderRoots # {}) =>
          (files # <<>> /\ result # "False")

\* a run that ended on the missing photo source while the video root held a video
C11_Witness ==
    /\ ~source_exists
    /\ video_source = "present"
    /\ \E f \in srcFiles : is_video_file(f.name)
    /\ pc = "done"
    /\ dest # <<>>

\* C12: a file whose date cannot be resolved (the modification time cannot be read,
\* after the EXIF read of a photo gave nothing) gets no destination path and writes
\* nothing; skipped grows by 1, copied and errors stay, the loop goes on, and the
\* run returns True.
C12_UnresolvedDateIsSkipped ==
    /\ ("mtime_stat" \in last.hit) =>
          /\ last.media_date = None
          /\ last.decision = "SkipUnresolvedDate"
          /\ last.dest_file = None
          /\ dest = last.before
          /\ stats.skipped = last.prev.skipped + 1
          /\ stats.copied = last.prev.copied
          /\ stats.errors = last.prev.errors
          /\ stats.total_size = last.prev.total_size
          /\ pc \in {"process", "done"}
          /\ idx = last.n + 1
    /\ (last.decision = "SkipUnresolvedDate") => "mtime_stat" \in last.hit
    /\ (pc = "done" /\ \E i \in 1..Len(log) : log[i][1] = "SkipUnresolvedDate") =>
          result = "True"

\* a photo that could be neither opened nor stat'ed, in a run that copied another
\* file and returned True
C12_Witness ==
    /\ last.hit = {"exif_open", "mtime_stat"}
    /\ last.file_type = "photo"
    /\ stats.copied = 1
    /\ pc = "done"
    /\ result = "True"

\* a number in decimal, with zeros in front up to the given width
RECURSIVE Padded(_, _)
Padded(n, width) ==
    IF width = 0 THEN <<>>
    ELSE Padded(n \div 10, width - 1) \o <<Digit(n % 10)>>

\* destination/YYYY/MM/DD/<sub>/<name> for the last file
FirstSeenPath ==
    << <<Padded(last.media_date[1], 4), Padded(last.media_date[2], 2),
         Padded(last.media_date[3], 2),
         IF last.file_type = "video" THEN "videos" ELSE "pictures">>,
       last.name >>

\* the date of the last file was resolved and nothing was at its first-seen path
FirstSeen == /\ Returned
             /\ last.media_date # None
             /\ ~exists(last.before, FirstSeenPath)

\* C13: a candidate with a resolved date whose target path does not exist is to be
\* copied to destination/YYYY/MM/DD/<sub>/<name>, month and day zero padded, <sub>
\* "videos" for a video and "pictures" otherwise, the name as it is in the source;
\* when mkdir and the copy do not fail the decision is Copy, and after a copy that
\* is not a dry run the path holds the content of the source and copied grew by 1.
C13_FirstSeenPlacement ==
    FirstSeen =>
        /\ last.dest_file = FirstSeenPath
        /\ last.decision \in {"Copy", "SkipError"}
        /\ (last.hit \cap {"mkdir", "copy", "copy_partial", "copied_stat"} = {})
              => last.decision = "Copy"
        /\ last.decision = "Copy" => stats.copied = last.prev.copied + 1
        /\ (last.decision = "Copy" /\ ~dry_run) =>
              /\ exists(dest, FirstSeenPath)
              /\ dest[FirstSeenPath].content = last.content
              /\ FirstSeenPath[1] \in destDirs

\* a video of the 7th of March copied to 2025/03/07/videos for the first time
C13_Witness ==
    /\ FirstSeen
    /\ last.file_type = "video"
    /\ last.media_date = Day2
    /\ last.decision = "Copy"
    /\ ~dry_run
    /\ last.dest_file = << << <<"2", "0", "2", "5">>, <<"0", "3">>, <<"0", "7">>, "videos" >>,
                           <<"B", ".MP4">> >>
    /\ exists(dest, last.dest_file)

\* C14: at every point of a run, dry or not, whatever was copied, skipped or failed,
\* the files under the two source roots are the files that were there when the run
\* started, each with the content and modification time it had.
C14_SourceUntouched ==
    /\ srcFiles = atStart.src
    /\ \A i \in 1..Len(files) : files[i][1] \in srcFiles

\* a run, not a dry run, that ended after one copy and one copy that failed part way
C14_Witness ==
    /\ pc = "done"
    /\ ~dry_run
    /\ stats.copied = 1
    /\ last.hit = {"copy_partial"}
    /\ Cardinality(srcFiles) = 2

\* the i-th of the three tags of the last file was read, is present and parses
TagParses(i) == /\ "exif_open" \notin last.hit
                /\ last.exif[i].present
                /\ last.exif[i].value # None

\* the date the fallback chain gives for the last file, a photo
ChainDate ==
    IF TagParses(1) THEN last.exif[1].value
    ELSE IF TagParses(2) THEN last.exif[2].value
    ELSE IF TagParses(3) THEN last.exif[3].value
    ELSE IF "mtime_stat" \in last.hit THEN None
    ELSE last.mtime

\* C15: the date of a photo is the date of the first of DateTimeOriginal,
\* DateTimeDigitized, Image DateTime that is present and parses, a tag that does not
\* parse being passed over; when none is, or the file cannot be opened, it is the
\* modification time; a DateTimeOriginal that parses wins over the modification time.
C15_PhotoDateChain ==
    (last.decision # "none" /\ last.file_type = "photo") =>
        /\ last.media_date = ChainDate
        /\ TagParses(1) => last.media_date = last.exif[1].value
        /\ "exif_open" \in last.hit => last.media_date \in {last.mtime, None}

\* a photo whose DateTimeOriginal does not parse, dated by its DateTimeDigitized and
\* not by its modification time
C15_Witness ==
    /\ last.file_type = "photo"
    /\ last.exif[1] = Garbled
    /\ last.exif[2] = Tag(Day1)
    /\ last.mtime = Day2
    /\ last.media_date = Day1

\* str.lower() of an extension
Lower(e) ==
    CASE e \in {".ARW", ".arw"} -> ".arw"
      [] e \in {".BUP", ".bup"} -> ".bup"
      [] e \in {".DNG", ".dng"} -> ".dng"
      [] e \in {".IFO", ".ifo"} -> ".ifo"
      [] e \in {".JPEG", ".jpeg"} -> ".jpeg"
      [] e \in {".JPG", ".Jpg", ".jpg"} -> ".jpg"
      [] e \in {".M2TS", ".m2ts"} -> ".m2ts"
      [] e \in {".MOV", ".mov"} -> ".mov"
      [] e \in {".MP4", ".Mp4", ".mp4"} -> ".mp4"
      [] e \in {".MTS", ".mts"} -> ".mts"
      [] e \in {".TIF", ".tif"} -> ".tif"
      [] e \in {".TIFF", ".tiff"} -> ".tiff"
      [] e \in {".XML", ".Xml", ".xml"} -> ".xml"

PhotoKinds == {".arw", ".jpg", ".jpeg", ".dng", ".tif", ".tiff"}
VideoKinds == {".mp4", ".mov", ".mts", ".m2ts"}
SidecarKinds == {".xml", ".bup", ".ifo"}

\* the extension of a file, lower-cased
Kind(f) == Lower(f.name[Len(f.name)])

\* the candidate list holds f with this file_type
Listed(f, file_type) == \E i \in 1..Len(files) : files[i] = <<f, file_type>>

\* C16 (as claimed): once the roots are scanned, a file under the photo root is a
\* photo candidate when its extension is, in any letter case, one of the photo
\* extensions, a file under a video root that is there is a video candidate when
\* its extension is, in any letter case, one of the video extensions, and a file
\* with a sidecar extension, in any letter case, is no candidate.
C16_ClassifiedWhateverTheCase ==
    (pc # "start") =>
        \A f \in srcFiles :
            /\ (f.root = "DCIM" /\ Kind(f) \in PhotoKinds) => Listed(f, "photo")
            /\ (f.root = "CLIP" /\ video_source = "present" /\ Kind(f) \in VideoKinds)
                  => Listed(f, "video")
            /\ Kind(f) \in SidecarKinds => ~Listed(f, "photo") /\ ~Listed(f, "video")

\* C17: when the photo root is there and neither root yields a media file, the run
\* returns False as an ordinary outcome (import_media returns, nothing is raised):
\* no file is processed, the statistics stay at zero and the destination is as it
\* was.
C17_NoMediaIsFailure ==
    (source_exists /\ pc # "start" /\ MediaUnderRoots = {}) =>
        (pc = "done" /\ result = "False" /\ NothingProcessed)

\* a run over roots that hold nothing but a sidecar file, into a destination that
\* already held files
C17_Witness ==
    /\ source_exists
    /\ video_source = "present"
    /\ srcFiles # {}
    /\ \A f \in srcFiles : PathSuffix(f.name) \in skip_extensions
    /\ pc = "done"
    /\ result = "False"
    /\ dest # <<>>

\* every file of the tree fs is in the destination now, with the content it had
KeptFrom(fs) == \A p \in DOMAIN fs : exists(dest, p) /\ dest[p] = fs[p]

\* C18: a copy is only ever made to a path that did not exist when the file's
\* decision was made, so every file that was in the destination before the run, or
\* before the last call, is still there with the content it had.
C18_NothingOverwritten ==
    /\ KeptFrom(atStart.dest)
    /\ last.decision # "none" => KeptFrom(last.before)
    /\ last.decision \in {"Copy", "SkipError"} => ~exists(last.before, last.dest_file)

\* a copy, not a dry run, that landed at stem_2 because the target and stem_1 were
\* both taken
C18_Witness ==
    /\ ~dry_run
    /\ last.decision = "Copy"
    /\ TargetTaken
    /\ exists(last.before, Suffixed(1))
    /\ last.dest_file = Suffixed(2)
    /\ exists(dest, Suffixed(2))

\* C19 (as claimed): the decisions and destination paths a dry run reported, file by
\* file, are those of the real run that follows it over the same source and the
\* same destination, no copy failing.
C19_DryRunTellsTheRealRun ==
    (run = 2 /\ ~dry_run /\ pc = "done" /\ result = "True") => log = firstRun.log

\* C20: the candidates are one list, photos and videos together, in ascending order
\* of their paths; the loop takes them one at a time in that order; and the second
\* of two runs over the same source goes through the same list.
C20_OneSortedList ==
    /\ \A i, j \in 1..Len(files) :
          i < j => PartsLess(PathParts(files[i][1]), PathParts(files[j][1]))
    /\ (pc # "start" /\ source_exists) => {files[i][1] : i \in 1..Len(files)} = MediaUnderRoots
    /\ Len(log) = idx - 1
    /\ last.decision # "none" =>
          /\ last.n = idx - 1
          /\ last.name = files[last.n][1].name
          /\ last.content = files[last.n][1].content
          /\ last.file_type = files[last.n][2]
    /\ (run = 2 /\ pc # "start") => files = firstRun.files

\* a second run that went through a video and then a photo, as the first had
C20_Witness ==
    /\ run = 2
    /\ pc = "done"
    /\ Len(files) = 2
    /\ files[1][2] = "video"
    /\ files[2][2] = "photo"
    /\ firstRun.files = files
    /\ Len(log) = 2

====
